---- MODULE Spec2Model ----
(***************************************************************************)
(* finsim: the currency-aware Money / Exchange value layer (simple_money)  *)
(* and the progressive tax engine built on it (tax_engine).                *)
(*                                                                         *)
(* Decimal amounts are rust_decimal values: a signed integer mantissa and  *)
(* a scale (number of fractional digits).  The library keeps at most 28    *)
(* fractional digits and rounds a result that needs more; the model keeps  *)
(* DecScale digits and rounds in the same places, so that an inverse rate  *)
(* such as 1/1.3 is a rounded value here as it is in the program.          *)
(* Decimals are kept normalised (no trailing zero digit), which makes      *)
(* TLA+ equality coincide with the library's numeric equality.             *)
(***************************************************************************)
EXTENDS Integers, Sequences, FiniteSets, TLC

\* ------------------------------------------------------------------ bounds

\* Fractional digits a Decimal keeps (the library keeps 28).
DecScale == 4
\* Longest bracket list handed to TaxSchedule::new.
MaxBrackets == 3
\* Longest list of claimed deductions.
MaxDeductions == 2

\* ----------------------------------------------------------------- results

Ok(v) == [kind |-> "Ok", val |-> v]
Err(e) == [kind |-> "Err", val |-> e]
Panic(msg) == [kind |-> "Panic", val |-> msg]
None == [some |-> FALSE]
Some(v) == [some |-> TRUE, val |-> v]

\* ----------------------------------------------------------------- Decimal

RECURSIVE Pow10(_)
Pow10(n) == IF n <= 0 THEN 1 ELSE 10 * Pow10(n - 1)

Abs(x) == IF x < 0 THEN 0 - x ELSE x

Sign(x) == IF x < 0 THEN 0 - 1 ELSE 1

Max2(a, b) == IF a >= b THEN a ELSE b

\* Drop trailing zero digits: 1.30 and 1.3 are the same Decimal.
RECURSIVE Normalize(_, _)
Normalize(m, e) ==
    IF m = 0 THEN [m |-> 0, e |-> 0]
    ELSE IF e > 0 /\ Abs(m) % 10 = 0 THEN Normalize(Sign(m) * (Abs(m) \div 10), e - 1)
    ELSE [m |-> m, e |-> e]

\* Decimal::new(num, scale) and the dec!() literals.
Dec(m, e) == Normalize(m, e)

Zero == Dec(0, 0)
One == Dec(1, 0)

\* n / d for n >= 0, d > 0, rounded to the nearest integer, ties to even.
RoundHalfEven(n, d) ==
    LET q == n \div d
        r == n % d
    IN  IF 2 * r > d \/ (2 * r = d /\ q % 2 = 1) THEN q + 1 ELSE q

\* A mantissa at scale e brought back to at most DecScale fractional digits.
Rescale(m, e) ==
    IF e <= DecScale THEN Normalize(m, e)
    ELSE Normalize(Sign(m) * RoundHalfEven(Abs(m), Pow10(e - DecScale)), DecScale)

\* The mantissa of d written at scale e (e >= d.e).
AtScale(d, e) == d.m * Pow10(e - d.e)

DecAdd(a, b) ==
    LET e == Max2(a.e, b.e) IN Normalize(AtScale(a, e) + AtScale(b, e), e)

DecSub(a, b) ==
    LET e == Max2(a.e, b.e) IN Normalize(AtScale(a, e) - AtScale(b, e), e)

DecMul(a, b) == Rescale(a.m * b.m, a.e + b.e)

\* a / b for b # 0 (the library panics on b = 0; callers test it first).
DecDiv(a, b) ==
    LET num == Abs(a.m) * Pow10(DecScale + b.e)
        den == Abs(b.m) * Pow10(a.e)
    IN  Normalize(Sign(a.m) * Sign(b.m) * RoundHalfEven(num, den), DecScale)

DecLt(a, b) == LET e == Max2(a.e, b.e) IN AtScale(a, e) < AtScale(b, e)

DecLe(a, b) == LET e == Max2(a.e, b.e) IN AtScale(a, e) <= AtScale(b, e)

\* ------------------------------------------------------- Currency and Money

Currency == {"CAD", "USD"}

Money(amount, currency) == [amount |-> amount, currency |-> currency]

cad_money(m, e) == Money(Dec(m, e), "CAD")
usd_money(m, e) == Money(Dec(m, e), "USD")

\* impl PartialOrd for Money: partial_cmp is None across currencies, so each
\* of <, <=, >, >= is false there.
Money_lt(a, b) == a.currency = b.currency /\ DecLt(a.amount, b.amount)
Money_le(a, b) == a.currency = b.currency /\ DecLe(a.amount, b.amount)
Money_gt(a, b) == a.currency = b.currency /\ DecLt(b.amount, a.amount)
Money_ge(a, b) == a.currency = b.currency /\ DecLe(b.amount, a.amount)
\* derived PartialEq: both fields equal.
Money_eq(a, b) == a.currency = b.currency /\ a.amount = b.amount

\* impl Add for Money / impl Sub for Money: panic on a currency mismatch.
Money_add(a, b) ==
    IF a.currency # b.currency THEN Panic("Currency mismatch")
    ELSE Ok(Money(DecAdd(a.amount, b.amount), a.currency))

\* Subtraction that keeps the left currency without comparing the two.
Money_sub_unchecked(a, b) ==
    Ok(Money(DecSub(a.amount, b.amount), a.currency))

Money_sub(a, b) ==
    IF a.currency # b.currency THEN Panic("Currency mismatch")
    ELSE Ok(Money(DecSub(a.amount, b.amount), a.currency))

\* impl Mul<Decimal> for Money.
Money_mul(a, rhs) == Money(DecMul(a.amount, rhs), a.currency)

\* Ord::clamp as Money inherits it: assert!(min <= max), then the two tests.
Money_clamp(x, min, max) ==
    IF ~Money_le(min, max) THEN Panic("assertion failed: min <= max")
    ELSE IF Money_lt(x, min) THEN Ok(min)
    ELSE IF Money_gt(x, max) THEN Ok(max)
    ELSE Ok(x)

\* ---------------------------------------------------------------- Exchange

\* HashMap::insert.
Insert(map, key, value) ==
    [k \in (DOMAIN map) \cup {key} |-> IF k = key THEN value ELSE map[k]]

\* Exchange::new: an empty rate table.
Exchange_new == << >>

\* Exchange::set_rate: the table after the call and how the call ended.  The
\* forward entry is inserted before the inverse is computed, and the
\* division panics on a zero rate.
set_rate(table, from, to, rate) ==
    LET forward == Insert(table, <<from, to>>, rate)
    IN  IF rate.m = 0
        THEN [rates |-> forward, result |-> Panic("Division by zero")]
        ELSE [rates |-> Insert(forward, <<to, from>>, DecDiv(One, rate)),
              result |-> Ok("unit")]

get_rate(table, from, to) ==
    IF <<from, to>> \in DOMAIN table THEN Ok(table[<<from, to>>])
    ELSE Err("CouldNotFindExchangeRate")

\* convert with a missing rate taken to be 1 instead of reported.
convert_at_par(table, money, currency) ==
    IF money.currency = currency THEN Ok(money)
    ELSE LET rate == get_rate(table, money.currency, currency)
         IN  Ok(Money(DecMul(money.amount, IF rate.kind = "Ok" THEN rate.val ELSE One),
                      currency))

\* convert that looks the rate up even when money is already in currency.
convert_always_looking_up(table, money, currency) ==
    LET rate == get_rate(table, money.currency, currency)
    IN  IF rate.kind # "Ok" THEN rate
        ELSE Ok(Money(DecMul(money.amount, rate.val), currency))

convert(table, money, currency) ==
    IF money.currency = currency THEN Ok(money)
    ELSE LET rate == get_rate(table, money.currency, currency)
         IN  IF rate.kind # "Ok" THEN rate
             ELSE Ok(Money(DecMul(money.amount, rate.val), currency))

\* add that converts first only and takes second's amount at face value.
Exchange_add_second_at_face(table, first, second, output_currency) ==
    IF first.currency = output_currency /\ second.currency = output_currency
    THEN Money_add(first, second)
    ELSE LET f == convert(table, first, output_currency)
         IN  IF f.kind # "Ok" THEN f
             ELSE Ok(Money(DecAdd(f.val.amount, second.amount),
                           output_currency))

Exchange_add(table, first, second, output_currency) ==
    IF first.currency = output_currency /\ second.currency = output_currency
    THEN Money_add(first, second)
    ELSE LET f == convert(table, first, output_currency)
             s == convert(table, second, output_currency)
         IN  IF f.kind # "Ok" THEN f
             ELSE IF s.kind # "Ok" THEN s
             ELSE Money_add(f.val, s.val)

Exchange_sub(table, first, second, output_currency) ==
    IF first.currency = output_currency /\ second.currency = output_currency
    THEN Money_sub(first, second)
    ELSE LET f == convert(table, first, output_currency)
             s == convert(table, second, output_currency)
         IN  IF f.kind # "Ok" THEN f
             ELSE IF s.kind # "Ok" THEN s
             ELSE Money_sub(f.val, s.val)

\* lt with first converted into second's currency instead.
Exchange_lt_converting_first(table, first, second) ==
    IF first.currency = second.currency THEN Ok(Money_lt(first, second))
    ELSE LET f == convert(table, first, second.currency)
         IN  IF f.kind # "Ok" THEN f ELSE Ok(Money_lt(f.val, second))

\* The five comparisons: second is converted into first's currency.
Exchange_lt(table, first, second) ==
    IF first.currency = second.currency THEN Ok(Money_lt(first, second))
    ELSE LET s == convert(table, second, first.currency)
         IN  IF s.kind # "Ok" THEN s ELSE Ok(Money_lt(first, s.val))

\* lte that delegates to the strict comparison.
Exchange_lte_strict(table, first, second) ==
    IF first.currency = second.currency THEN Ok(Money_lt(first, second))
    ELSE LET s == convert(table, second, first.currency)
         IN  IF s.kind # "Ok" THEN s ELSE Ok(Money_lt(first, s.val))

Exchange_lte(table, first, second) ==
    IF first.currency = second.currency THEN Ok(Money_le(first, second))
    ELSE LET s == convert(table, second, first.currency)
         IN  IF s.kind # "Ok" THEN s ELSE Ok(Money_le(first, s.val))

Exchange_eq(table, first, second) ==
    IF first.currency = second.currency THEN Ok(Money_eq(first, second))
    ELSE LET s == convert(table, second, first.currency)
         IN  IF s.kind # "Ok" THEN s ELSE Ok(Money_eq(first, s.val))

Exchange_gte(table, first, second) ==
    IF first.currency = second.currency THEN Ok(Money_ge(first, second))
    ELSE LET s == convert(table, second, first.currency)
         IN  IF s.kind # "Ok" THEN s ELSE Ok(Money_ge(first, s.val))

Exchange_gt(table, first, second) ==
    IF first.currency = second.currency THEN Ok(Money_gt(first, second))
    ELSE LET s == convert(table, second, first.currency)
         IN  IF s.kind # "Ok" THEN s ELSE Ok(Money_gt(first, s.val))

\* clamp that converts input only and takes the bounds at face value.
Exchange_clamp_bounds_at_face(table, input, min, max, output_currency) ==
    IF input.currency = output_currency /\ min.currency = output_currency
       /\ max.currency = output_currency
    THEN Money_clamp(input, min, max)
    ELSE LET i == convert(table, input, output_currency)
         IN  IF i.kind # "Ok" THEN i
             ELSE Money_clamp(i.val, Money(min.amount, output_currency),
                              Money(max.amount, output_currency))

Exchange_clamp(table, input, min, max, output_currency) ==
    IF input.currency = output_currency /\ min.currency = output_currency
       /\ max.currency = output_currency
    THEN Money_clamp(input, min, max)
    ELSE LET i == convert(table, input, output_currency)
             lo == convert(table, min, output_currency)
             hi == convert(table, max, output_currency)
         IN  IF i.kind # "Ok" THEN i
             ELSE IF lo.kind # "Ok" THEN lo
             ELSE IF hi.kind # "Ok" THEN hi
             ELSE Money_clamp(i.val, lo.val, hi.val)

\* --------------------------------------------------------------- TaxBracket

TaxBracket(min_money, max_money, rate) ==
    [min_money |-> min_money, max_money |-> max_money, rate |-> rate]

new_tax_bracket_with_max(min_money, max_money, rate) ==
    IF min_money.currency # max_money.currency THEN Err("MismatchedCurrencies")
    ELSE Ok(TaxBracket(min_money, Some(max_money), rate))

\* TaxBracket::new; max_money is an Option<Money>.
TaxBracket_new(min_money, max_money, rate) ==
    IF max_money.some THEN new_tax_bracket_with_max(min_money, max_money.val, rate)
    ELSE Ok(TaxBracket(min_money, None, rate))

\* (taxable_income - self.min_money) * self.rate
SliceAboveMin(bracket, taxable_income) ==
    LET d == Money_sub(taxable_income, bracket.min_money)
    IN  IF d.kind # "Ok" THEN d ELSE Ok(Money_mul(d.val, bracket.rate))

\* calculate_tax with a filled bracket taxed on its own width only.
TaxBracket_calculate_tax_width(bracket, taxable_income) ==
    IF Money_lt(taxable_income, bracket.min_money)
    THEN Ok(Money(Zero, bracket.min_money.currency))
    ELSE IF bracket.max_money.some /\ Money_ge(taxable_income, bracket.max_money.val)
    THEN Ok(Money_mul(Money(DecSub(bracket.max_money.val.amount, bracket.min_money.amount),
                            bracket.min_money.currency), bracket.rate))
    ELSE SliceAboveMin(bracket, taxable_income)

\* TaxBracket::calculate_tax.  A filled bracket returns max_money * rate.
TaxBracket_calculate_tax(bracket, taxable_income) ==
    IF Money_lt(taxable_income, bracket.min_money)
    THEN Ok(Money(Zero, bracket.min_money.currency))
    ELSE IF bracket.max_money.some
    THEN IF Money_ge(taxable_income, bracket.max_money.val)
         THEN Ok(Money_mul(bracket.max_money.val, bracket.rate))
         ELSE SliceAboveMin(bracket, taxable_income)
    ELSE SliceAboveMin(bracket, taxable_income)

\* ------------------------------------------------------------ TaxDeduction

TaxDeductionCategory == {"CapitalGains", "EmployeeStockOptions"}

TaxDeductionRule(category, max_amount, inclusion_rate) ==
    [tax_deduction_type |-> category, max_amount |-> max_amount,
     inclusion_rate |-> inclusion_rate]

TaxDeduction(category, money_to_deduct) ==
    [tax_deduction_type |-> category, money_to_deduct |-> money_to_deduct]

\* TaxDeductionRule::apply_deduction.  With a max_amount, a claim at or below
\* it yields max_amount * inclusion_rate and a claim above it yields
\* money_to_deduct * inclusion_rate.
apply_deduction(rule, deduction) ==
    IF rule.max_amount.some
    THEN IF Money_le(deduction.money_to_deduct, rule.max_amount.val)
         THEN Money_mul(rule.max_amount.val, rule.inclusion_rate)
         ELSE Money_mul(deduction.money_to_deduct, rule.inclusion_rate)
    ELSE Money_mul(deduction.money_to_deduct, rule.inclusion_rate)

\* ------------------------------------------------------------- TaxSchedule

\* The bracket check with an open-ended bracket let through unexamined.
validate_currency_on_bracket_max_only(bracket, currency) ==
    IF bracket.max_money.some
    THEN bracket.max_money.val.currency = currency
         /\ bracket.min_money.currency = currency
    ELSE TRUE

validate_currency_on_bracket(bracket, currency) ==
    IF bracket.max_money.some
    THEN bracket.max_money.val.currency = currency
         /\ bracket.min_money.currency = currency
    ELSE bracket.min_money.currency = currency

validate_currency_on_brackets(brackets, currency) ==
    \A i \in 1..Len(brackets) : validate_currency_on_bracket(brackets[i], currency)

\* impl Ord for TaxBracket: brackets compare by min_money alone.
TaxBracket_lt(a, b) == DecLt(a.min_money.amount, b.min_money.amount)

\* One bracket put into an already sorted list, after every bracket that is
\* not greater than it (Vec::sort is stable).
RECURSIVE InsertSorted(_, _)
InsertSorted(sorted, b) ==
    IF sorted = << >> THEN <<b>>
    ELSE IF TaxBracket_lt(b, sorted[Len(sorted)])
    THEN Append(InsertSorted(SubSeq(sorted, 1, Len(sorted) - 1), b),
                sorted[Len(sorted)])
    ELSE Append(sorted, b)

\* new_brackets.sort()
RECURSIVE SortBrackets(_)
SortBrackets(brackets) ==
    IF brackets = << >> THEN << >>
    ELSE InsertSorted(SortBrackets(SubSeq(brackets, 1, Len(brackets) - 1)),
                      brackets[Len(brackets)])

\* TaxSchedule::new.
TaxSchedule_new(brackets, currency) ==
    IF ~validate_currency_on_brackets(brackets, currency)
    THEN Err("MismatchedCurrencies")
    ELSE Ok([brackets |-> SortBrackets(brackets),
             deductions_map |-> << >>,
             tax_currency |-> currency])

\* TaxSchedule::set_deduction.
set_deduction(sched, category, rule) ==
    [sched EXCEPT !.deductions_map = Insert(sched.deductions_map, category, rule)]

\* The fold with a claim of an unregistered category skipped.
RECURSIVE FoldDeductions_skipping(_, _, _, _)
FoldDeductions_skipping(sched, deductions, i, acc) ==
    IF i > Len(deductions) THEN Ok(acc)
    ELSE LET d == deductions[i]
         IN  IF d.tax_deduction_type \notin DOMAIN sched.deductions_map
             THEN FoldDeductions_skipping(sched, deductions, i + 1, acc)
             ELSE LET info == sched.deductions_map[d.tax_deduction_type]
                      sum == Money_add(Money_mul(d.money_to_deduct, info.inclusion_rate), acc)
                  IN  IF sum.kind # "Ok" THEN sum
                      ELSE FoldDeductions_skipping(sched, deductions, i + 1, sum.val)

\* The try_fold of determine_deductions_amount from accumulator acc over
\* deductions[i..]: each claim adds money_to_deduct * inclusion_rate.
RECURSIVE FoldDeductions(_, _, _, _)
FoldDeductions(sched, deductions, i, acc) ==
    IF i > Len(deductions) THEN Ok(acc)
    ELSE LET d == deductions[i]
         IN  IF d.tax_deduction_type \notin DOMAIN sched.deductions_map
             THEN Err("CouldNotFindDeduction")
             ELSE LET info == sched.deductions_map[d.tax_deduction_type]
                      sum == Money_add(Money_mul(d.money_to_deduct, info.inclusion_rate), acc)
                  IN  IF sum.kind # "Ok" THEN sum
                      ELSE FoldDeductions(sched, deductions, i + 1, sum.val)

determine_deductions_amount(sched, deductions) ==
    FoldDeductions(sched, deductions, 1, Money(Zero, sched.tax_currency))

\* The map/fold of TaxSchedule::calculate_tax from accumulator acc over
\* brackets[i..].
RECURSIVE FoldBrackets(_, _, _, _)
FoldBrackets(brackets, taxable_income, i, acc) ==
    IF i > Len(brackets) THEN Ok(acc)
    ELSE LET bracket_tax == TaxBracket_calculate_tax(brackets[i], taxable_income)
         IN  IF bracket_tax.kind # "Ok" THEN bracket_tax
             ELSE LET sum == Money_add(acc, bracket_tax.val)
                  IN  IF sum.kind # "Ok" THEN sum
                      ELSE FoldBrackets(brackets, taxable_income, i + 1, sum.val)

TaxSchedule_calculate_tax(sched, taxable_income) ==
    FoldBrackets(sched.brackets, taxable_income, 1, Money(Zero, taxable_income.currency))

calculate_tax_with_deductions(sched, income, deductions) ==
    LET deductions_amount == determine_deductions_amount(sched, deductions)
    IN  IF deductions_amount.kind # "Ok" THEN deductions_amount
        ELSE LET net == Money_sub(income, deductions_amount.val)
             IN  IF net.kind # "Ok" THEN net
                 ELSE TaxSchedule_calculate_tax(sched, net.val)

\* ------------------------------------------------------------------ inputs

\* Rates offered to set_rate: 1.3 (the tests' rate, whose inverse is rounded)
\* and 2 (whose inverse is exact); zero and a negative rate.
PositiveRates == {Dec(13, 1), Dec(2, 0)}
NonPositiveRates == {Dec(0, 0), Dec(0 - 2, 0)}
AllRates == PositiveRates \cup NonPositiveRates

\* The amounts of the comparison tests, one more USD amount and its CAD
\* value at the tests' rate.
MoneyInputs ==
    { usd_money(1, 0), usd_money(2, 0), cad_money(13, 1), cad_money(2, 0),
      cad_money(26, 1) }

\* The tests' brackets, a bracket whose bounds disagree, and a USD bracket.
BracketInputs ==
    { <<cad_money(0, 0), Some(cad_money(10000, 0)), Dec(1, 1)>>,
      <<cad_money(10000, 0), Some(cad_money(20000, 0)), Dec(2, 1)>>,
      <<cad_money(20000, 0), None, Dec(3, 1)>>,
      <<cad_money(0, 0), None, Dec(1, 1)>>,
      <<cad_money(0, 0), Some(usd_money(1, 0)), Dec(1, 1)>>,
      <<usd_money(0, 0), None, Dec(1, 1)>> }

\* Every bracket TaxBracket::new hands out for those inputs.
BracketPool ==
    { TaxBracket_new(i[1], i[2], i[3]).val :
        i \in {j \in BracketInputs : TaxBracket_new(j[1], j[2], j[3]).kind = "Ok"} }

IsInjective(f) == \A i, j \in DOMAIN f : f[i] = f[j] => i = j

BracketLists ==
    { l \in UNION {[1..n -> BracketPool] : n \in 0..MaxBrackets} : IsInjective(l) }

Incomes ==
    { cad_money(5000, 0), cad_money(10000, 0), cad_money(15000, 0),
      cad_money(25000, 0), usd_money(5000, 0) }

RulePool ==
    { TaxDeductionRule("CapitalGains", None, Dec(5, 1)),
      TaxDeductionRule("CapitalGains", Some(cad_money(1000, 0)), Dec(5, 1)),
      TaxDeductionRule("EmployeeStockOptions", Some(cad_money(2000, 0)), Dec(1, 0)) }

ClaimPool ==
    { TaxDeduction("CapitalGains", cad_money(5000, 0)),
      TaxDeduction("CapitalGains", cad_money(500, 0)),
      TaxDeduction("EmployeeStockOptions", cad_money(2000, 0)),
      TaxDeduction("CapitalGains", usd_money(500, 0)) }

DeductionLists == UNION {[1..n -> ClaimPool] : n \in 0..MaxDeductions}

\* ------------------------------------------------------------------- state

VARIABLES
    rates,      \* Exchange.rates
    exCall,     \* the last Exchange call: operation, arguments, table before, outcome
    schedule,   \* the TaxSchedule under use, None before one is constructed
    taxCall,    \* the last tax_engine call: operation, arguments, outcome
    moneyCall   \* the last operator applied to Money values: operands, outcome

vars == <<rates, exCall, schedule, taxCall, moneyCall>>

exVars == <<rates, exCall>>
taxVars == <<schedule, taxCall>>

Call(op, args, before, result) ==
    [op |-> op, args |-> args, before |-> before, result |-> result]

\* No call is in progress: the caller is between two calls.
Idle == Call("idle", << >>, << >>, Ok("unit"))

Init ==
    /\ rates = Exchange_new
    /\ exCall = Idle
    /\ schedule = None
    /\ taxCall = Idle
    /\ moneyCall = Idle

\* --------------------------------------------------------- Exchange actions

SetRateFrom(offered) ==
    /\ exCall.op = "idle"
    /\ \E from \in Currency, to \in Currency, rate \in offered :
          LET r == set_rate(rates, from, to, rate)
          IN  /\ rates' = r.rates
              /\ exCall' = Call("set_rate", <<from, to, rate>>, rates, r.result)
    /\ UNCHANGED <<taxVars, moneyCall>>

SetRate == SetRateFrom(AllRates)

SetPositiveRate == SetRateFrom(PositiveRates)

\* The methods below take &self: the table is not written.

GetRate ==
    /\ exCall.op = "idle"
    /\ \E from \in Currency, to \in Currency :
          exCall' = Call("get_rate", <<from, to>>, rates,
                         get_rate(rates, from, to))
    /\ UNCHANGED <<rates, taxVars, moneyCall>>

Convert ==
    /\ exCall.op = "idle"
    /\ \E money \in MoneyInputs, currency \in Currency :
          exCall' = Call("convert", <<money, currency>>, rates,
                         convert(rates, money, currency))
    /\ UNCHANGED <<rates, taxVars, moneyCall>>

Add ==
    /\ exCall.op = "idle"
    /\ \E first \in MoneyInputs, second \in MoneyInputs, out \in Currency :
          exCall' = Call("add", <<first, second, out>>, rates,
                         Exchange_add(rates, first, second, out))
    /\ UNCHANGED <<rates, taxVars, moneyCall>>

Sub ==
    /\ exCall.op = "idle"
    /\ \E first \in MoneyInputs, second \in MoneyInputs, out \in Currency :
          exCall' = Call("sub", <<first, second, out>>, rates,
                         Exchange_sub(rates, first, second, out))
    /\ UNCHANGED <<rates, taxVars, moneyCall>>

Lt ==
    /\ exCall.op = "idle"
    /\ \E first \in MoneyInputs, second \in MoneyInputs :
          exCall' = Call("lt", <<first, second>>, rates,
                         Exchange_lt(rates, first, second))
    /\ UNCHANGED <<rates, taxVars, moneyCall>>

Lte ==
    /\ exCall.op = "idle"
    /\ \E first \in MoneyInputs, second \in MoneyInputs :
          exCall' = Call("lte", <<first, second>>, rates,
                         Exchange_lte(rates, first, second))
    /\ UNCHANGED <<rates, taxVars, moneyCall>>

Eq ==
    /\ exCall.op = "idle"
    /\ \E first \in MoneyInputs, second \in MoneyInputs :
          exCall' = Call("eq", <<first, second>>, rates,
                         Exchange_eq(rates, first, second))
    /\ UNCHANGED <<rates, taxVars, moneyCall>>

Gte ==
    /\ exCall.op = "idle"
    /\ \E first \in MoneyInputs, second \in MoneyInputs :
          exCall' = Call("gte", <<first, second>>, rates,
                         Exchange_gte(rates, first, second))
    /\ UNCHANGED <<rates, taxVars, moneyCall>>

Gt ==
    /\ exCall.op = "idle"
    /\ \E first \in MoneyInputs, second \in MoneyInputs :
          exCall' = Call("gt", <<first, second>>, rates,
                         Exchange_gt(rates, first, second))
    /\ UNCHANGED <<rates, taxVars, moneyCall>>

Clamp ==
    /\ exCall.op = "idle"
    /\ \E input \in MoneyInputs, min \in MoneyInputs, max \in MoneyInputs, out \in Currency :
          exCall' = Call("clamp", <<input, min, max, out>>, rates,
                         Exchange_clamp(rates, input, min, max, out))
    /\ UNCHANGED <<rates, taxVars, moneyCall>>

\* The caller has looked at the outcome and goes on to its next call.
ExReturn ==
    /\ exCall.op # "idle"
    /\ exCall' = Idle
    /\ UNCHANGED <<rates, taxVars, moneyCall>>

Queries ==
    \/ GetRate \/ Convert \/ Add \/ Sub
    \/ Lt \/ Lte \/ Eq \/ Gte \/ Gt \/ Clamp

\* ------------------------------------------------------- tax_engine actions

NewBracket ==
    /\ taxCall.op = "idle"
    /\ \E i \in BracketInputs :
          taxCall' = Call("TaxBracket::new", i, schedule, TaxBracket_new(i[1], i[2], i[3]))
    /\ UNCHANGED <<schedule, exVars, moneyCall>>

NewSchedule ==
    /\ taxCall.op = "idle"
    /\ \E brackets \in BracketLists, currency \in Currency :
          LET r == TaxSchedule_new(brackets, currency)
          IN  /\ schedule' = IF r.kind = "Ok" THEN Some(r.val) ELSE schedule
              /\ taxCall' = Call("TaxSchedule::new", <<brackets, currency>>, schedule, r)
    /\ UNCHANGED <<exVars, moneyCall>>

SetDeduction ==
    /\ taxCall.op = "idle"
    /\ schedule.some
    /\ \E category \in TaxDeductionCategory, rule \in RulePool :
        /\ schedule' = Some(set_deduction(schedule.val, category, rule))
        /\ taxCall' = Call("set_deduction", <<category, rule>>, schedule, Ok("unit"))
        /\ UNCHANGED <<exVars, moneyCall>>

BracketTax ==
    /\ taxCall.op = "idle"
    /\ \E bracket \in BracketPool, income \in Incomes :
          taxCall' = Call("TaxBracket::calculate_tax", <<bracket, income>>, schedule,
                          TaxBracket_calculate_tax(bracket, income))
    /\ UNCHANGED <<schedule, exVars, moneyCall>>

ApplyDeduction ==
    /\ taxCall.op = "idle"
    /\ \E rule \in RulePool, deduction \in ClaimPool :
          taxCall' = Call("apply_deduction", <<rule, deduction>>, schedule,
                          Ok(apply_deduction(rule, deduction)))
    /\ UNCHANGED <<schedule, exVars, moneyCall>>

CalculateTax ==
    /\ taxCall.op = "idle"
    /\ schedule.some
    /\ \E income \in Incomes :
          taxCall' = Call("calculate_tax", <<income>>, schedule,
                          TaxSchedule_calculate_tax(schedule.val, income))
    /\ UNCHANGED <<schedule, exVars, moneyCall>>

CalculateTaxWithDeductions ==
    /\ taxCall.op = "idle"
    /\ schedule.some
    /\ \E income \in Incomes, deductions \in DeductionLists :
          taxCall' = Call("calculate_tax_with_deductions", <<income, deductions>>, schedule,
                          calculate_tax_with_deductions(schedule.val, income, deductions))
    /\ UNCHANGED <<schedule, exVars, moneyCall>>

TaxReturn ==
    /\ taxCall.op # "idle"
    /\ taxCall' = Idle
    /\ UNCHANGED <<schedule, exVars, moneyCall>>

\* ------------------------------------------------------------ Money actions

\* first + second
MoneyAdd ==
    /\ moneyCall.op = "idle"
    /\ \E first \in MoneyInputs, second \in MoneyInputs :
          moneyCall' = Call("+", <<first, second>>, << >>, Money_add(first, second))
    /\ UNCHANGED <<exVars, taxVars>>

\* first - second
MoneySub ==
    /\ moneyCall.op = "idle"
    /\ \E first \in MoneyInputs, second \in MoneyInputs :
          moneyCall' = Call("-", <<first, second>>, << >>, Money_sub(first, second))
    /\ UNCHANGED <<exVars, taxVars>>

\* first < second
MoneyLt ==
    /\ moneyCall.op = "idle"
    /\ \E first \in MoneyInputs, second \in MoneyInputs :
          moneyCall' = Call("<", <<first, second>>, << >>, Ok(Money_lt(first, second)))
    /\ UNCHANGED <<exVars, taxVars>>

\* first <= second
MoneyLe ==
    /\ moneyCall.op = "idle"
    /\ \E first \in MoneyInputs, second \in MoneyInputs :
          moneyCall' = Call("<=", <<first, second>>, << >>, Ok(Money_le(first, second)))
    /\ UNCHANGED <<exVars, taxVars>>

\* first >= second
MoneyGe ==
    /\ moneyCall.op = "idle"
    /\ \E first \in MoneyInputs, second \in MoneyInputs :
          moneyCall' = Call(">=", <<first, second>>, << >>, Ok(Money_ge(first, second)))
    /\ UNCHANGED <<exVars, taxVars>>

\* first > second
MoneyGt ==
    /\ moneyCall.op = "idle"
    /\ \E first \in MoneyInputs, second \in MoneyInputs :
          moneyCall' = Call(">", <<first, second>>, << >>, Ok(Money_gt(first, second)))
    /\ UNCHANGED <<exVars, taxVars>>

\* input.clamp(min, max)
MoneyClamp ==
    /\ moneyCall.op = "idle"
    /\ \E input \in MoneyInputs, min \in MoneyInputs, max \in MoneyInputs :
          moneyCall' = Call("clamp", <<input, min, max>>, << >>,
                            Money_clamp(input, min, max))
    /\ UNCHANGED <<exVars, taxVars>>

MoneyReturn ==
    /\ moneyCall.op # "idle"
    /\ moneyCall' = Idle
    /\ UNCHANGED <<exVars, taxVars>>

\* ----------------------------------------------------------- specifications

\* The Exchange under every rate a caller can offer.
Next == SetRate \/ Queries \/ ExReturn

Spec == Init /\ [][Next]_vars

\* The Exchange when only positive rates are offered.
NextPositive == SetPositiveRate \/ Queries \/ ExReturn

SpecPositive == Init /\ [][NextPositive]_vars

\* The tax engine.
NextTax ==
    \/ NewBracket \/ NewSchedule \/ SetDeduction
    \/ BracketTax \/ ApplyDeduction
    \/ CalculateTax \/ CalculateTaxWithDeductions
    \/ TaxReturn

SpecTax == Init /\ [][NextTax]_vars

\* The operators of Money, applied without an Exchange.
NextMoney ==
    \/ MoneyAdd \/ MoneySub
    \/ MoneyLt \/ MoneyLe \/ MoneyGe \/ MoneyGt
    \/ MoneyClamp
    \/ MoneyReturn

SpecMoney == Init /\ [][NextMoney]_vars

\* ------------------------------------------------------------------ claims

Registered(table, a, b) == <<a, b>> \in DOMAIN table

\* C1: after any sequence of set_rate calls with positive rates (from = to
\* included), an entry (A,B) is in the table iff (B,A) is, and the two rates
\* are reciprocal: one of them is 1 divided by the other.
C1_PairSymmetry ==
    \A a \in Currency, b \in Currency :
        /\ Registered(rates, a, b) <=> Registered(rates, b, a)
        /\ (Registered(rates, a, b) /\ Registered(rates, b, a)) =>
              \/ rates[<<b, a>>] = DecDiv(One, rates[<<a, b>>])
              \/ rates[<<a, b>>] = DecDiv(One, rates[<<b, a>>])

\* C8: a set_rate call with a zero or negative rate ends in an error and
\* leaves the rate table as it was before the call.
C8_NonPositiveRateRejected ==
    (exCall.op = "set_rate" /\ DecLe(exCall.args[3], Zero)) =>
        /\ exCall.result.kind = "Err"
        /\ rates = exCall.before

\* C9: get_rate(c, c) returns rate 1 in every state of the Exchange.
C9_SameCurrencyRateIsOne ==
    (exCall.op = "get_rate" /\ exCall.args[1] = exCall.args[2]) =>
        /\ exCall.result.kind = "Ok"
        /\ exCall.result.val = One

\* The currencies of the Money operands of a call, and the currency they
\* have to be brought into.
OperandCurrencies(call) ==
    CASE call.op = "get_rate" -> {call.args[1]}
      [] call.op = "convert" -> {call.args[1].currency}
      [] call.op \in {"add", "sub"} -> {call.args[1].currency, call.args[2].currency}
      [] call.op \in {"lt", "lte", "eq", "gte", "gt"} -> {call.args[2].currency}
      [] call.op = "clamp" ->
            {call.args[1].currency, call.args[2].currency, call.args[3].currency}
      [] OTHER -> {}

TargetCurrency(call) ==
    CASE call.op = "get_rate" -> call.args[2]
      [] call.op = "convert" -> call.args[2]
      [] call.op \in {"add", "sub"} -> call.args[3]
      [] call.op \in {"lt", "lte", "eq", "gte", "gt"} -> call.args[1].currency
      [] call.op = "clamp" -> call.args[4]
      [] OTHER -> "CAD"

\* The call has an operand in a currency other than its target currency, and
\* neither direction of that pair is in the table.
NeedsUnregisteredPair(call) ==
    \E c \in OperandCurrencies(call) :
        /\ c # TargetCurrency(call)
        /\ ~Registered(call.before, c, TargetCurrency(call))
        /\ ~Registered(call.before, TargetCurrency(call), c)

\* C10: get_rate, convert, add, sub, the five comparisons and clamp, when
\* they need a conversion between two distinct currencies with no registered
\* pair, return CouldNotFindExchangeRate and leave the rate table unchanged.
C10_MissingRateFails ==
    NeedsUnregisteredPair(exCall) =>
        /\ exCall.result.kind = "Err"
        /\ exCall.result.val = "CouldNotFindExchangeRate"
        /\ rates = exCall.before

\* A clamp whose input is already in the output currency and whose bounds
\* are not, on a table without that pair.
C10_Witness ==
    /\ exCall.op = "clamp"
    /\ exCall.args[1].currency = exCall.args[4]
    /\ NeedsUnregisteredPair(exCall)
    /\ exCall.result.kind = "Err"

\* The tax of one bracket as marginal taxation defines it.
C2_Expected(bracket, income) ==
    IF DecLt(income.amount, bracket.min_money.amount)
    THEN Money(Zero, bracket.min_money.currency)
    ELSE IF bracket.max_money.some /\ DecLe(bracket.max_money.val.amount, income.amount)
    THEN Money(DecMul(DecSub(bracket.max_money.val.amount, bracket.min_money.amount),
                      bracket.rate), bracket.min_money.currency)
    ELSE Money(DecMul(DecSub(income.amount, bracket.min_money.amount), bracket.rate),
               bracket.min_money.currency)

\* C2: TaxBracket.calculate_tax(income), income in the bracket's currency, is
\* 0 when income < min, (max - min) * rate when max is present and
\* income >= max, and (income - min) * rate otherwise.
C2_BracketTaxesItsSlice ==
    (/\ taxCall.op = "TaxBracket::calculate_tax"
     /\ taxCall.args[2].currency = taxCall.args[1].min_money.currency) =>
        /\ taxCall.result.kind = "Ok"
        /\ taxCall.result.val = C2_Expected(taxCall.args[1], taxCall.args[2])

\* The brackets start at 0 and each one ends where the next begins.
Contiguous(brackets) ==
    /\ Len(brackets) >= 1
    /\ brackets[1].min_money.amount = Zero
    /\ \A i \in 1..Len(brackets) :
          brackets[i].max_money.some =>
              DecLt(brackets[i].min_money.amount, brackets[i].max_money.val.amount)
    /\ \A i \in 1..(Len(brackets) - 1) :
          /\ brackets[i].max_money.some
          /\ brackets[i].max_money.val = brackets[i + 1].min_money

DecMin(a, b) == IF DecLe(a, b) THEN a ELSE b

\* The length of the part of [0, income) inside the bracket's [min, max).
Overlap(bracket, income) ==
    LET top == IF bracket.max_money.some
               THEN DecMin(income, bracket.max_money.val.amount) ELSE income
    IN  IF DecLe(top, bracket.min_money.amount) THEN Zero
        ELSE DecSub(top, bracket.min_money.amount)

RECURSIVE MarginalTotal(_, _, _)
MarginalTotal(brackets, income, i) ==
    IF i > Len(brackets) THEN Zero
    ELSE DecAdd(DecMul(Overlap(brackets[i], income), brackets[i].rate),
                MarginalTotal(brackets, income, i + 1))

RECURSIVE SumOfBracketTaxes(_, _, _)
SumOfBracketTaxes(brackets, income, i) ==
    IF i > Len(brackets) THEN Zero
    ELSE DecAdd(TaxBracket_calculate_tax(brackets[i], income).val.amount,
                SumOfBracketTaxes(brackets, income, i + 1))

\* C3: on contiguous brackets starting at 0, TaxSchedule.calculate_tax is the
\* sum of the brackets' calculate_tax, and that sum is the marginal-rate
\* total: the sum of rate times the overlap of [0, income) with each bracket.
C3_SumIsMarginalTotal ==
    (/\ taxCall.op = "calculate_tax"
     /\ Contiguous(schedule.val.brackets)
     /\ taxCall.args[1].currency = schedule.val.tax_currency) =>
        /\ taxCall.result.kind = "Ok"
        /\ taxCall.result.val.amount =
              SumOfBracketTaxes(schedule.val.brackets, taxCall.args[1], 1)
        /\ taxCall.result.val.amount =
              MarginalTotal(schedule.val.brackets, taxCall.args[1].amount, 1)

C4_ThreeBrackets ==
    << TaxBracket(cad_money(0, 0), Some(cad_money(10000, 0)), Dec(1, 1)),
       TaxBracket(cad_money(10000, 0), Some(cad_money(20000, 0)), Dec(2, 1)),
       TaxBracket(cad_money(20000, 0), None, Dec(3, 1)) >>

C4_OneBracket ==
    << TaxBracket(cad_money(0, 0), Some(cad_money(10000, 0)), Dec(1, 1)) >>

C4_Returns(brackets, income, tax) ==
    (/\ taxCall.op = "calculate_tax"
     /\ schedule.val.brackets = brackets
     /\ taxCall.args[1] = income) =>
        /\ taxCall.result.kind = "Ok"
        /\ taxCall.result.val = tax

\* C4: with CAD brackets [0,10000) at 10%, [10000,20000) at 20% and
\* [20000, unbounded) at 30%, calculate_tax returns 6500 for 25000, 2000 for
\* 15000 and 500 for 5000; with the single bracket [0,10000) at 10% it
\* returns 1000 for 10000.
C4_TestFigures ==
    /\ C4_Returns(C4_ThreeBrackets, cad_money(25000, 0), cad_money(6500, 0))
    /\ C4_Returns(C4_ThreeBrackets, cad_money(15000, 0), cad_money(2000, 0))
    /\ C4_Returns(C4_ThreeBrackets, cad_money(5000, 0), cad_money(500, 0))
    /\ C4_Returns(C4_OneBracket, cad_money(10000, 0), cad_money(1000, 0))

\* The three-bracket schedule asked for the tax on 25000.
C4_Witness ==
    /\ taxCall.op = "calculate_tax"
    /\ schedule.val.brackets = C4_ThreeBrackets
    /\ taxCall.args[1] = cad_money(25000, 0)
    /\ taxCall.result.kind = "Ok"
    /\ taxCall.result.val = cad_money(6500, 0)

\* The deductible amount of a claim under a rule that caps it.
C5_Expected(rule, deduction) ==
    IF rule.max_amount.some /\ Money_gt(deduction.money_to_deduct, rule.max_amount.val)
    THEN Money_mul(rule.max_amount.val, rule.inclusion_rate)
    ELSE Money_mul(deduction.money_to_deduct, rule.inclusion_rate)

\* C5: apply_deduction returns max_amount * inclusion_rate when the rule has
\* a max_amount and the claim is strictly greater than it, and
\* money_to_deduct * inclusion_rate in every other case.
C5_DeductionIsCapped ==
    (/\ taxCall.op = "apply_deduction"
     /\ taxCall.args[1].max_amount.some =>
           taxCall.args[1].max_amount.val.currency = taxCall.args[2].money_to_deduct.currency) =>
        taxCall.result.val = C5_Expected(taxCall.args[1], taxCall.args[2])

AllRegistered(sched, deductions) ==
    \A i \in 1..Len(deductions) :
        deductions[i].tax_deduction_type \in DOMAIN sched.deductions_map

AllInCurrency(deductions, n, currency) ==
    \A i \in 1..n : deductions[i].money_to_deduct.currency = currency

\* The sum over the claims of the matching rule's apply_deduction result.
RECURSIVE SumOfAppliedDeductions(_, _, _)
SumOfAppliedDeductions(sched, deductions, i) ==
    IF i > Len(deductions) THEN Zero
    ELSE DecAdd(apply_deduction(sched.deductions_map[deductions[i].tax_deduction_type],
                                deductions[i]).amount,
                SumOfAppliedDeductions(sched, deductions, i + 1))

\* C6: when every claimed category has a registered rule,
\* calculate_tax_with_deductions(income, deductions) is calculate_tax(income - D),
\* D the sum over the claims of the matching rule's apply_deduction result.
\* Stated for claims, caps and income in the schedule's currency.
C6_DeductionsAreApplied ==
    (/\ taxCall.op = "calculate_tax_with_deductions"
     /\ AllRegistered(schedule.val, taxCall.args[2])
     /\ AllInCurrency(taxCall.args[2], Len(taxCall.args[2]), schedule.val.tax_currency)
     /\ taxCall.args[1].currency = schedule.val.tax_currency
     /\ \A c \in DOMAIN schedule.val.deductions_map :
           schedule.val.deductions_map[c].max_amount.some =>
              schedule.val.deductions_map[c].max_amount.val.currency
                 = schedule.val.tax_currency) =>
        taxCall.result =
            TaxSchedule_calculate_tax(
                schedule.val,
                Money(DecSub(taxCall.args[1].amount,
                             SumOfAppliedDeductions(schedule.val, taxCall.args[2], 1)),
                      schedule.val.tax_currency))

\* The position of the first claim whose category has no rule (0 if none).
FirstUnregistered(sched, deductions) ==
    IF AllRegistered(sched, deductions) THEN 0
    ELSE CHOOSE i \in 1..Len(deductions) :
            /\ deductions[i].tax_deduction_type \notin DOMAIN sched.deductions_map
            /\ \A j \in 1..(i - 1) :
                  deductions[j].tax_deduction_type \in DOMAIN sched.deductions_map

\* C7 as stated: a claim of an unregistered category, at any position and
\* whatever the other claims are, makes calculate_tax_with_deductions return
\* CouldNotFindDeduction; a tax value comes back only when every claimed
\* category is registered.
C7_Original ==
    taxCall.op = "calculate_tax_with_deductions" =>
        /\ ~AllRegistered(schedule.val, taxCall.args[2]) =>
              /\ taxCall.result.kind = "Err"
              /\ taxCall.result.val = "CouldNotFindDeduction"
        /\ taxCall.result.kind = "Ok" => AllRegistered(schedule.val, taxCall.args[2])

\* C7 amended: with a claim of an unregistered category the call never
\* returns a tax value; it returns CouldNotFindDeduction when every claim
\* before the first unregistered one is in the schedule's currency, and it
\* faults in the raw Money addition when one of them is not.
C7_UnregisteredCategory ==
    taxCall.op = "calculate_tax_with_deductions" =>
        LET sched == schedule.val
            deductions == taxCall.args[2]
            first == FirstUnregistered(sched, deductions)
        IN  /\ taxCall.result.kind = "Ok" => first = 0
            /\ (first > 0 /\ AllInCurrency(deductions, first - 1, sched.tax_currency)) =>
                  /\ taxCall.result.kind = "Err"
                  /\ taxCall.result.val = "CouldNotFindDeduction"
            /\ (first > 0 /\ ~AllInCurrency(deductions, first - 1, sched.tax_currency)) =>
                  /\ taxCall.result.kind = "Panic"
                  /\ taxCall.result.val = "Currency mismatch"

\* A registered claim in the schedule's currency followed by a claim of an
\* unregistered category.
C7_Witness ==
    /\ taxCall.op = "calculate_tax_with_deductions"
    /\ FirstUnregistered(schedule.val, taxCall.args[2]) = 2
    /\ AllInCurrency(taxCall.args[2], 1, schedule.val.tax_currency)
    /\ taxCall.result.kind = "Err"
    /\ taxCall.result.val = "CouldNotFindDeduction"


CmpOps == {"lt", "lte", "eq", "gte", "gt"}

\* The comparison op names, on two amounts of one currency.
NativeCompare(op, a, b) ==
    CASE op = "lt" -> DecLt(a, b)
      [] op = "lte" -> DecLe(a, b)
      [] op = "eq" -> a = b
      [] op = "gte" -> DecLe(b, a)
      [] op = "gt" -> DecLt(b, a)

\* The table set_rate(USD, CAD, 1.3) leaves for the USD/CAD pair.
TestRates(table) ==
    /\ Registered(table, "USD", "CAD") /\ table[<<"USD", "CAD">>] = Dec(13, 1)
    /\ Registered(table, "CAD", "USD")
    /\ table[<<"CAD", "USD">>] = DecDiv(One, Dec(13, 1))

\* C11: each of lt/lte/eq/gte/gt compares first and second natively when
\* their currencies match, and otherwise compares first with second's amount
\* times the rate second.currency -> first.currency, the only rate it reads;
\* with rate USD->CAD = 1.3, lt(1 USD, 2 CAD) is true and lt(2 CAD, 1 USD) is
\* false.
C11_ComparesInFirstCurrency ==
    exCall.op \in CmpOps =>
        LET first == exCall.args[1]
            second == exCall.args[2]
            table == exCall.before
        IN  /\ IF first.currency = second.currency
               THEN /\ exCall.result.kind = "Ok"
                    /\ exCall.result.val =
                          NativeCompare(exCall.op, first.amount, second.amount)
               ELSE IF Registered(table, second.currency, first.currency)
               THEN /\ exCall.result.kind = "Ok"
                    /\ exCall.result.val =
                          NativeCompare(exCall.op, first.amount,
                              DecMul(second.amount,
                                     table[<<second.currency, first.currency>>]))
               ELSE exCall.result.kind = "Err"
            /\ (exCall.op = "lt" /\ TestRates(table)) =>
                  /\ exCall.args = <<usd_money(1, 0), cad_money(2, 0)>> =>
                        exCall.result.val = TRUE
                  /\ exCall.args = <<cad_money(2, 0), usd_money(1, 0)>> =>
                        exCall.result.val = FALSE

\* lt(1 USD, 2 CAD) asked of the table the tests set up.
C11_Witness ==
    /\ exCall.op = "lt"
    /\ TestRates(exCall.before)
    /\ exCall.args = <<usd_money(1, 0), cad_money(2, 0)>>
    /\ exCall.result.kind = "Ok"
    /\ exCall.result.val = TRUE


\* The comparison named op, as Exchange computes it.
Compare(op, table, first, second) ==
    CASE op = "lt" -> Exchange_lt(table, first, second)
      [] op = "lte" -> Exchange_lte(table, first, second)
      [] op = "eq" -> Exchange_eq(table, first, second)
      [] op = "gte" -> Exchange_gte(table, first, second)
      [] op = "gt" -> Exchange_gt(table, first, second)

\* A comparison of two amounts in different currencies whose pair is in the
\* table in both directions, as set_rate leaves it.
ComparesRegisteredPair ==
    /\ exCall.op \in CmpOps
    /\ exCall.args[1].currency # exCall.args[2].currency
    /\ Registered(exCall.before, exCall.args[1].currency,
                  exCall.args[2].currency)
    /\ Registered(exCall.before, exCall.args[2].currency,
                  exCall.args[1].currency)

\* Exactly one of lt, eq, gt; lte = lt or eq; gte = gt or eq; the call made
\* returned what Compare gives.
MutuallyConsistent(table, x, y) ==
    LET lt == Compare("lt", table, x, y).val
        lte == Compare("lte", table, x, y).val
        eq == Compare("eq", table, x, y).val
        gte == Compare("gte", table, x, y).val
        gt == Compare("gt", table, x, y).val
    IN  /\ \A op \in CmpOps : Compare(op, table, x, y).kind = "Ok"
        /\ exCall.result = Compare(exCall.op, table, x, y)
        /\ lt \/ eq \/ gt
        /\ ~(lt /\ eq) /\ ~(lt /\ gt) /\ ~(eq /\ gt)
        /\ lte = (lt \/ eq)
        /\ gte = (gt \/ eq)

\* lt(x,y) = gt(y,x) and eq(x,y) = eq(y,x).
MirrorsUnderSwap(table, x, y) ==
    /\ Compare("lt", table, x, y).val = Compare("gt", table, y, x).val
    /\ Compare("eq", table, x, y).val = Compare("eq", table, y, x).val

\* The rate out of money's currency and the rate back are positive and
\* converting money there and back returns it unchanged.
ExactRoundTrip(table, money, currency) ==
    /\ DecLt(Zero, table[<<money.currency, currency>>])
    /\ DecLt(Zero, table[<<currency, money.currency>>])
    /\ LET there == convert(table, money, currency)
       IN  convert(table, there.val, money.currency) = Ok(money)

\* C12 as stated: the five comparisons of a registered cross-currency pair
\* are mutually consistent and mirror under operand swap.
C12_Original ==
    ComparesRegisteredPair =>
        /\ MutuallyConsistent(exCall.before, exCall.args[1], exCall.args[2])
        /\ MirrorsUnderSwap(exCall.before, exCall.args[1], exCall.args[2])

\* C12: the five comparisons of a registered cross-currency pair are mutually
\* consistent (exactly one of lt, eq, gt; lte = lt or eq; gte = gt or eq);
\* lt(x,y) = gt(y,x) and eq(x,y) = eq(y,x) hold when both rates of the pair
\* are positive and each operand survives conversion to the other's currency
\* and back unchanged, as 1 USD and 1.3 CAD do at rate 1.3.
C12_ConsistentAndMirrorsWhenExact ==
    ComparesRegisteredPair =>
        LET table == exCall.before
            x == exCall.args[1]
            y == exCall.args[2]
        IN  /\ MutuallyConsistent(table, x, y)
            /\ (ExactRoundTrip(table, x, y.currency)
                /\ ExactRoundTrip(table, y, x.currency)) =>
                   MirrorsUnderSwap(table, x, y)
            /\ (TestRates(table) /\ x = usd_money(1, 0)
                /\ y = cad_money(13, 1)) =>
                   /\ ExactRoundTrip(table, x, "CAD")
                   /\ ExactRoundTrip(table, y, "USD")
                   /\ Compare("eq", table, x, y).val
                   /\ Compare("eq", table, y, x).val

\* eq(1 USD, 1.3 CAD) asked at rate 1.3: both round trips are exact.
C12_Witness ==
    /\ exCall.op = "eq"
    /\ TestRates(exCall.before)
    /\ exCall.args = <<usd_money(1, 0), cad_money(13, 1)>>
    /\ ExactRoundTrip(exCall.before, exCall.args[1], "CAD")
    /\ ExactRoundTrip(exCall.before, exCall.args[2], "USD")
    /\ exCall.result.kind = "Ok"
    /\ exCall.result.val = TRUE


\* Whether money can be expressed in currency from the table: it is already
\* in it, or the entry (money.currency, currency) exists.
Convertible(table, money, currency) ==
    money.currency = currency \/ Registered(table, money.currency, currency)

\* The amount of money expressed in currency, when Convertible.
AmountIn(table, money, currency) ==
    IF money.currency = currency THEN money.amount
    ELSE DecMul(money.amount, table[<<money.currency, currency>>])

\* C13: add and sub return a Money in the output currency whose amount is the
\* converted first amount plus (minus) the converted second amount; when both
\* operands are already in the output currency the native sum (difference)
\* comes back on any table, the empty one included.
C13_ConvertThenCombine ==
    exCall.op \in {"add", "sub"} =>
        LET first == exCall.args[1]
            second == exCall.args[2]
            out == exCall.args[3]
            table == exCall.before
            Combine(a, b) == IF exCall.op = "add" THEN DecAdd(a, b)
                             ELSE DecSub(a, b)
        IN  /\ (first.currency = out /\ second.currency = out) =>
                  /\ exCall.result.kind = "Ok"
                  /\ exCall.result.val =
                        Money(Combine(first.amount, second.amount), out)
            /\ (Convertible(table, first, out)
                /\ Convertible(table, second, out)) =>
                  /\ exCall.result.kind = "Ok"
                  /\ exCall.result.val =
                        Money(Combine(AmountIn(table, first, out),
                                      AmountIn(table, second, out)), out)

\* add(1 USD, 2 CAD, CAD) at rate 1.3 returns 3.3 CAD.
C13_Witness ==
    /\ exCall.op = "add"
    /\ TestRates(exCall.before)
    /\ exCall.args = <<usd_money(1, 0), cad_money(2, 0), "CAD">>
    /\ exCall.result.kind = "Ok"
    /\ exCall.result.val = cad_money(33, 1)


\* C14: clamp, when every operand can be expressed in the output currency and
\* the converted min is at most the converted max, returns the converted input
\* if it lies within the converted bounds, the converted min if it is below
\* and the converted max if it is above; operands already in the output
\* currency are used as they are.
C14_ClampsConvertedOperands ==
    exCall.op = "clamp" =>
        LET input == exCall.args[1]
            min == exCall.args[2]
            max == exCall.args[3]
            out == exCall.args[4]
            table == exCall.before
            i == AmountIn(table, input, out)
            lo == AmountIn(table, min, out)
            hi == AmountIn(table, max, out)
        IN  (/\ Convertible(table, input, out)
             /\ Convertible(table, min, out)
             /\ Convertible(table, max, out)
             /\ DecLe(lo, hi)) =>
                /\ exCall.result.kind = "Ok"
                /\ exCall.result.val =
                      Money(IF DecLt(i, lo) THEN lo
                            ELSE IF DecLt(hi, i) THEN hi
                            ELSE i, out)

\* clamp(1 USD, 2 CAD, 2.6 CAD, CAD) at rate 1.3: 1.3 CAD is below the
\* minimum, so 2 CAD comes back.
C14_Witness ==
    /\ exCall.op = "clamp"
    /\ TestRates(exCall.before)
    /\ exCall.args = <<usd_money(1, 0), cad_money(2, 0), cad_money(26, 1), "CAD">>
    /\ exCall.result.kind = "Ok"
    /\ exCall.result.val = cad_money(2, 0)


\* Some bound of bracket, its min or its max when present, is not in currency.
HasBoundOutside(bracket, currency) ==
    \/ bracket.min_money.currency # currency
    \/ bracket.max_money.some /\ bracket.max_money.val.currency # currency

\* C15: TaxBracket::new returns MismatchedCurrencies exactly when a max is
\* given in another currency than the min; TaxSchedule::new returns
\* MismatchedCurrencies exactly when some bracket has its min or its present
\* max outside the schedule currency; every constructed schedule has all its
\* bracket bounds in its currency.
C15_CurrenciesValidated ==
    /\ taxCall.op = "TaxBracket::new" =>
          LET min_money == taxCall.args[1]
              max_money == taxCall.args[2]
              mismatch == max_money.some
                          /\ min_money.currency # max_money.val.currency
          IN  /\ (taxCall.result.kind = "Err") = mismatch
              /\ taxCall.result.kind = "Err" =>
                    taxCall.result.val = "MismatchedCurrencies"
              /\ ~mismatch =>
                    /\ taxCall.result.kind = "Ok"
                    /\ taxCall.result.val.min_money = min_money
                    /\ taxCall.result.val.max_money = max_money
    /\ taxCall.op = "TaxSchedule::new" =>
          LET brackets == taxCall.args[1]
              currency == taxCall.args[2]
              mismatch == \E i \in 1..Len(brackets) :
                             HasBoundOutside(brackets[i], currency)
          IN  /\ (taxCall.result.kind = "Err") = mismatch
              /\ taxCall.result.kind = "Err" =>
                    taxCall.result.val = "MismatchedCurrencies"
              /\ ~mismatch =>
                    /\ taxCall.result.kind = "Ok"
                    /\ taxCall.result.val.tax_currency = currency
                    /\ schedule = Some(taxCall.result.val)
    /\ schedule.some =>
          \A i \in 1..Len(schedule.val.brackets) :
             ~HasBoundOutside(schedule.val.brackets[i], schedule.val.tax_currency)

\* TaxSchedule::new refuses a list that holds the open-ended USD bracket
\* next to a CAD bracket when asked for a CAD schedule.
C15_Witness ==
    /\ taxCall.op = "TaxSchedule::new"
    /\ taxCall.args[2] = "CAD"
    /\ Len(taxCall.args[1]) = 2
    /\ taxCall.args[1][1] = TaxBracket(cad_money(0, 0), None, Dec(1, 1))
    /\ taxCall.args[1][2] = TaxBracket(usd_money(0, 0), None, Dec(1, 1))
    /\ taxCall.result.kind = "Err"
    /\ taxCall.result.val = "MismatchedCurrencies"


\* C16: once set_rate(A, B, r) has run, get_rate(A, B) is r and get_rate(B, A)
\* is 1/r, whatever earlier calls wrote for the pair, and the entries of
\* every other pair are as they were before the call; rates change in no
\* other way, so this is the state get_rate reads until the next set_rate on
\* the pair.
C16_LastSetRateWins ==
    exCall.op = "set_rate" =>
        LET A == exCall.args[1]
            B == exCall.args[2]
            r == exCall.args[3]
        IN  /\ get_rate(rates, A, B).kind = "Ok"
            /\ get_rate(rates, A, B).val = r
            /\ get_rate(rates, B, A).kind = "Ok"
            /\ get_rate(rates, B, A).val = DecDiv(One, r)
            /\ \A c \in Currency, d \in Currency :
                  {c, d} # {A, B} =>
                     get_rate(rates, c, d) = get_rate(exCall.before, c, d)


\* C18: convert(m, m.currency) returns m itself in every state of the
\* Exchange: on the empty table, and on a table that holds an entry for the
\* pair (m.currency, m.currency).
C18_ConvertToOwnCurrencyIsIdentity ==
    (exCall.op = "convert" /\ exCall.args[1].currency = exCall.args[2]) =>
        /\ exCall.result.kind = "Ok"
        /\ exCall.result.val = exCall.args[1]

\* convert(m, CAD) of a CAD amount on a table whose (CAD, CAD) entry is not 1.
C18_Witness ==
    /\ exCall.op = "convert"
    /\ exCall.args[1].currency = "CAD"
    /\ exCall.args[2] = "CAD"
    /\ Registered(exCall.before, "CAD", "CAD")
    /\ exCall.before[<<"CAD", "CAD">>] # One
    /\ exCall.result.kind = "Ok"
    /\ exCall.result.val = exCall.args[1]


\* C19: calculate_tax on a schedule with at least one bracket, given an
\* income in another currency than the schedule's, returns neither a tax nor
\* an error value: both comparisons of TaxBracket::calculate_tax are false
\* and the raw Money subtraction faults with a currency mismatch; given an
\* income in the schedule currency it returns a tax in that currency.
C19_ForeignIncomeFaults ==
    (taxCall.op = "calculate_tax" /\ Len(taxCall.before.val.brackets) >= 1) =>
        LET sched == taxCall.before.val
            income == taxCall.args[1]
        IN  IF income.currency # sched.tax_currency
            THEN /\ \A i \in 1..Len(sched.brackets) :
                       /\ ~Money_lt(income, sched.brackets[i].min_money)
                       /\ sched.brackets[i].max_money.some =>
                             ~Money_ge(income, sched.brackets[i].max_money.val)
                 /\ taxCall.result.kind = "Panic"
                 /\ taxCall.result.val = "Currency mismatch"
            ELSE /\ taxCall.result.kind = "Ok"
                 /\ taxCall.result.val.currency = sched.tax_currency

\* calculate_tax(5000 USD) on a CAD schedule of three brackets has faulted.
C19_Witness ==
    /\ taxCall.op = "calculate_tax"
    /\ taxCall.before.val.tax_currency = "CAD"
    /\ Len(taxCall.before.val.brackets) = 3
    /\ taxCall.args[1] = usd_money(5000, 0)
    /\ taxCall.result.kind = "Panic"


\* The operands of the last Money operator are not all in one currency.
CurrenciesDiffer ==
    \E i, j \in DOMAIN moneyCall.args :
        moneyCall.args[i].currency # moneyCall.args[j].currency

\* C17: no operator of Money that needs a shared currency (+, -, <, <=, >=,
\* >, clamp) yields a Money or a plain true/false when the currencies of its
\* operands differ; a cross-currency < or >= does not evaluate to false.
C17_MismatchIsSignalled ==
    (moneyCall.op \in {"+", "-", "<", "<=", ">=", ">", "clamp"}
     /\ CurrenciesDiffer) =>
        moneyCall.result.kind # "Ok"

====
